---- MODULE Spec2Model ----
(***************************************************************************)
(* Model of the OpenAPI -> MCP converter (package converter, with the      *)
(* configuration types of pkg/models).                                     *)
(*                                                                         *)
(* Names that the converter orders (tool names, argument names, security   *)
(* scheme ids) are byte strings, written as sequences of byte values and   *)
(* compared as Go compares strings.  Strings that are only copied or       *)
(* compared for equality are TLA+ strings.  A nil pointer or nil reference *)
(* is the empty sequence <<>> and a resolved one is <<value>>.  A Go map   *)
(* is a function; every `range` over a map visits its keys in an order     *)
(* the runtime chooses, so it is a choice among all orders of the keys.    *)
(***************************************************************************)
EXTENDS Integers, Sequences, FiniteSets, TLC

VARIABLES
    parser,        \* the parser handed to NewConverter: [doc |-> <<>> or <<document>>]
    options,       \* the ConvertOptions the caller built
    mapObj,        \* contents of the one map object behind options.ServerConfig
    templateFile,  \* what is stored at options.TemplatePath
    c,             \* the Converter: <<>> before NewConverter, then <<[options |-> ...]>>
    results,       \* what each call of Convert returned, in call order, with the
                   \* contents of the server config map at the return
    schema,        \* the response schema handed to the Schema Walker
    written,       \* the field lines the walker wrote: <<>> before the walk, then <<lines>>
    generatedConfig, \* the configuration handed to applyTemplate: [config, map]
    merged,        \* what applyTemplate left: <<>> before the call, then <<[config, map, err]>>
    schemas,       \* the schemas a traversal runs on, by reference: <<>> when none runs
    stack          \* the calls of a schema traversal that have not returned, outermost first

vars == <<parser, options, mapObj, templateFile, c, results, schema, written,
          generatedConfig, merged, schemas, stack>>

(***************************************************************************)
(* Bounds of the model.                                                    *)
(***************************************************************************)
MaxOps == 2        \* operations in a document
MaxRuns == 2       \* calls of Convert on one converter
MaxLevels == 15    \* levels of nested objects in a walked response schema

(***************************************************************************)
(* Go primitives.                                                          *)
(***************************************************************************)
Nil == <<>>
Some(x) == <<x>>
IsNil(p) == Len(p) = 0
Val(p) == p[1]

\* Go's string comparison a < b: bytewise, a proper prefix is smaller.
RECURSIVE StrLess(_, _)
StrLess(a, b) ==
    IF b = <<>> THEN FALSE
    ELSE IF a = <<>> THEN TRUE
    ELSE IF Head(a) # Head(b) THEN Head(a) < Head(b)
    ELSE StrLess(Tail(a), Tail(b))

\* All orders in which a `range` may visit the key set S.
Orders(S) ==
    LET n == Cardinality(S)
    IN  {s \in [1..n -> S] : \A i, j \in 1..n : i # j => s[i] # s[j]}

\* sort.Slice(s, less) with less(i, j) == s[i][key] < s[j][key], for the short
\* slices of the model: Go sorts a slice of at most 12 elements by insertion,
\* moving an element left only past elements it is less than.
RECURSIVE InsertSorted(_, _, _)
InsertSorted(t, x, key) ==
    IF t # <<>> /\ StrLess(x[key], t[Len(t)][key])
    THEN Append(InsertSorted(SubSeq(t, 1, Len(t) - 1), x, key), t[Len(t)])
    ELSE Append(t, x)

RECURSIVE SortSlice(_, _)
SortSlice(s, key) ==
    IF s = <<>> THEN <<>>
    ELSE InsertSorted(SortSlice(SubSeq(s, 1, Len(s) - 1), key), s[Len(s)], key)

\* slices.Contains
contains(slice, str) == \E i \in 1..Len(slice) : slice[i] = str

\* strings.ToUpper on the method names getOperations produces.
ToUpper(method) ==
    CASE method = "get" -> "GET"
      [] method = "post" -> "POST"
      [] method = "put" -> "PUT"
      [] method = "delete" -> "DELETE"
      [] method = "options" -> "OPTIONS"
      [] method = "head" -> "HEAD"
      [] method = "patch" -> "PATCH"
      [] method = "trace" -> "TRACE"

\* strings.Contains(contentType, "application/json") ||
\* strings.Contains(contentType, "application/x-www-form-urlencoded")
IsJSONOrForm(contentType) ==
    contentType \in {"application/json", "application/json; charset=utf-8",
                     "application/x-www-form-urlencoded"}

\* strings.HasPrefix(code, "2")
HasPrefix2(code) == code \in {"200", "201", "204", "2XX"}

(***************************************************************************)
(* Values of the document (openapi3) and of the configuration (models).    *)
(***************************************************************************)
\* An openapi3.Schema with every field zero except its type.
Schema(type) ==
    [Type |-> type, Title |-> "", Description |-> "", Enum |-> <<>>,
     Default |-> Nil, MinItems |-> 0, Items |-> Nil, Properties |-> <<>>,
     Required |-> <<>>, AllOf |-> <<>>]

\* models.Arg, zero value.
Arg ==
    [Name |-> <<>>, Description |-> "", Type |-> "", Required |-> FALSE,
     Default |-> Nil, Enum |-> <<>>, Items |-> Nil, Properties |-> Nil,
     Position |-> "", Enabled |-> FALSE]

\* models.RequestTemplate, zero value.
RequestTemplate ==
    [URL |-> "", Method |-> "", Headers |-> <<>>, Body |-> "",
     ArgsToJsonBody |-> FALSE, ArgsToUrlParam |-> FALSE,
     ArgsToFormBody |-> FALSE, Security |-> Nil]

\* models.ResponseTemplate, zero value.
ResponseTemplate == [Body |-> "", PrependBody |-> "", AppendBody |-> ""]

\* The keys of a property map whose schema reference is resolved.
Resolved(properties) == {n \in DOMAIN properties : ~IsNil(properties[n])}

(***************************************************************************)
(* convertParameters                                                       *)
(***************************************************************************)
\* paramPosition with every parameter taken for a query parameter.
paramPositionQuery(param) == "query"

\* Position of the argument of a parameter: the parameter's location.
paramPosition(param) == param.In

\* The argument of one resolved parameter (the loop body).
paramArg(param) ==
    LET arg == [Arg EXCEPT !.Name = param.Name,
                           !.Description = param.Description,
                           !.Required = param.Required,
                           !.Position = paramPosition(param),
                           !.Enabled = TRUE]
    IN  IF IsNil(param.Schema) THEN arg
        ELSE LET sch == Val(param.Schema)
             IN  [arg EXCEPT
                    !.Type = sch.Type,
                    !.Enum = sch.Enum,
                    !.Items =
                        IF sch.Type = "array" /\ ~IsNil(sch.Items)
                        THEN Some("type" :> Val(sch.Items).Type)
                        ELSE Nil,
                    !.Properties =
                        IF sch.Type = "object" /\ DOMAIN sch.Properties # {}
                        THEN Some([n \in Resolved(sch.Properties) |->
                                ("type" :> Val(sch.Properties[n]).Type) @@
                                (IF Val(sch.Properties[n]).Description # ""
                                 THEN "description" :> Val(sch.Properties[n]).Description
                                 ELSE <<>>)])
                        ELSE Nil]

RECURSIVE convertParameters(_)
convertParameters(parameters) ==
    IF parameters = <<>> THEN <<>>
    ELSE IF IsNil(Head(parameters)) THEN convertParameters(Tail(parameters))
    ELSE <<paramArg(Val(Head(parameters)))>> \o convertParameters(Tail(parameters))

(***************************************************************************)
(* convertRequestBody and allOfHandle                                      *)
(***************************************************************************)
RECURSIVE allOfHandle(_)
allOfHandle(schemaRef) ==
    LET sch == Val(schemaRef)
    IN  IF sch.Type = "object"
        THEN [n \in Resolved(sch.Properties) |->
                LET prop == Val(sch.Properties[n])
                    flat == prop.Type = "" /\ Len(prop.AllOf) = 1
                IN  ("type" :> (IF flat THEN "object" ELSE prop.Type)) @@
                    (IF prop.Description # ""
                     THEN "description" :> prop.Description ELSE <<>>) @@
                    (IF flat
                     THEN "properties" :> allOfHandle(prop.AllOf[1]) ELSE <<>>)]
        ELSE <<>>

\* "Handle allOf" with the block left out.
handleAllOfSkipped(arg, prop) == arg

\* "Handle allOf": the argument of a property with no type and exactly one
\* allOf member.
handleAllOf(arg, prop) ==
    IF prop.Type = "" /\ Len(prop.AllOf) = 1
    THEN [arg EXCEPT !.Type = "object",
                     !.Properties = Some(allOfHandle(prop.AllOf[1]))]
    ELSE arg

\* The argument of one resolved property of an object body schema.
bodyArg(sch, propName) ==
    LET prop == Val(sch.Properties[propName])
        arg == [Arg EXCEPT
                  !.Name = propName,
                  !.Description =
                      IF prop.Title # "" /\ prop.Description = ""
                      THEN prop.Title ELSE prop.Description,
                  !.Type = prop.Type,
                  !.Required = contains(sch.Required, propName),
                  !.Position = "body",
                  !.Enabled = TRUE,
                  !.Enum = prop.Enum,
                  !.Default = prop.Default,
                  !.Items =
                      IF prop.Type = "array" /\ ~IsNil(prop.Items)
                      THEN LET item == Val(prop.Items)
                           IN  Some(("type" :> item.Type) @@
                                    ("description" :> item.Description) @@
                                    (IF item.MinItems > 0
                                     THEN "minItems" :> item.MinItems ELSE <<>>) @@
                                    (IF item.Type = "object" /\ DOMAIN item.Properties # {}
                                     THEN "properties" :> item.Properties ELSE <<>>))
                      ELSE Nil,
                  !.Properties =
                      IF prop.Type = "object" /\ DOMAIN prop.Properties # {}
                      THEN Some([n \in Resolved(prop.Properties) |->
                              LET sub == Val(prop.Properties[n])
                              IN  ("type" :> sub.Type) @@
                                  (IF ~IsNil(sub.Default)
                                   THEN "default" :> Val(sub.Default) ELSE <<>>) @@
                                  ("description" :> sub.Description) @@
                                  (IF sub.Enum # <<>>
                                   THEN "enum" :> sub.Enum ELSE <<>>)])
                      ELSE Nil]
    IN  handleAllOf(arg, prop)

\* The arguments one content type contributes, its properties visited in propOrder.
RECURSIVE propArgs(_, _)
propArgs(sch, propOrder) ==
    IF propOrder = <<>> THEN <<>>
    ELSE IF IsNil(sch.Properties[Head(propOrder)])
    THEN propArgs(sch, Tail(propOrder))
    ELSE <<bodyArg(sch, Head(propOrder))>> \o propArgs(sch, Tail(propOrder))

\* Every argument list the loop over the content types ctOrder can build.
RECURSIVE contentArgs(_, _)
contentArgs(content, ctOrder) ==
    IF ctOrder = <<>> THEN {<<>>}
    ELSE LET contentType == Head(ctOrder)
             mediaType == content[contentType]
             rest == contentArgs(content, Tail(ctOrder))
         IN  IF IsNil(mediaType.Schema) THEN rest
             ELSE LET sch == Val(mediaType.Schema)
                  IN  IF IsJSONOrForm(contentType) /\ sch.Type = "object"
                         /\ DOMAIN sch.Properties # {}
                      THEN {propArgs(sch, po) \o r :
                              po \in Orders(DOMAIN sch.Properties), r \in rest}
                      ELSE rest

\* Every result of convertRequestBody: one for each order in which the maps
\* (content types, properties) can be visited.
convertRequestBody(requestBodyRef) ==
    IF IsNil(requestBodyRef) THEN {<<>>}
    ELSE LET content == Val(requestBodyRef).Content
         IN  UNION {contentArgs(content, o) : o \in Orders(DOMAIN content)}

(***************************************************************************)
(* createRequestTemplate                                                   *)
(***************************************************************************)
\* securityReference looking at the first requirement only.
securityReferenceFirstOnly(requirements) ==
    IF requirements = <<>> \/ DOMAIN Head(requirements) = {} THEN {Nil}
    ELSE {Some([ID |-> n, Passthrough |-> FALSE]) : n \in DOMAIN Head(requirements)}

\* The security reference the loop over the requirements can leave in the
\* template: a requirement is a map from scheme name to scopes, and the inner
\* loop takes the first name the map yields.
RECURSIVE securityReference(_)
securityReference(requirements) ==
    IF requirements = <<>> THEN {Nil}
    ELSE IF DOMAIN Head(requirements) = {}
    THEN securityReference(Tail(requirements))
    ELSE {Some([ID |-> o[1], Passthrough |-> FALSE]) :
            o \in Orders(DOMAIN Head(requirements))}

\* The Content-Type header list: the first content type the map yields.
contentTypeHeaders(requestBodyRef) ==
    IF IsNil(requestBodyRef) \/ DOMAIN Val(requestBodyRef).Content = {}
    THEN {<<>>}
    ELSE {<<[Key |-> "Content-Type", Value |-> o[1]]>> :
            o \in Orders(DOMAIN Val(requestBodyRef).Content)}

\* The new request template with ArgsToJsonBody set.
newRequestTemplateJsonBody(path, method) ==
    [RequestTemplate EXCEPT !.URL = path, !.Method = ToUpper(method),
                            !.ArgsToJsonBody = TRUE]

\* "Create the request template": &models.RequestTemplate{URL, Method, Headers}.
newRequestTemplate(path, method) ==
    [RequestTemplate EXCEPT !.URL = path, !.Method = ToUpper(method)]

createRequestTemplate(path, method, operation) ==
    {[newRequestTemplate(path, method) EXCEPT !.Headers = hs, !.Security = sec] :
        sec \in (IF IsNil(operation.Security) THEN {Nil}
                 ELSE securityReference(Val(operation.Security))),
        hs \in contentTypeHeaders(operation.RequestBody)}

(***************************************************************************)
(* createResponseTemplate and processSchemaProperties                      *)
(***************************************************************************)
\* sort.Strings over the keys of a map.
RECURSIVE SortStrings(_)
SortStrings(S) ==
    IF S = {} THEN <<>>
    ELSE LET m == CHOOSE x \in S : \A y \in S \ {x} : StrLess(x, y)
         IN  <<m>> \o SortStrings(S \ {m})

\* One written line "<indent>- **<path>**: <description> (Type: <type>)\n";
\* indent counts the repetitions of the two-space unit.
FieldLine(indent, path, sch) ==
    [kind |-> "field", indent |-> indent, path |-> path,
     description |-> sch.Description, type |-> sch.Type]

\* One written line "<indent>- **<path>[]**: Items of type <type>\n".
ItemsLine(indent, path, type) ==
    [kind |-> "items", indent |-> indent, path |-> path \o <<91, 93>>,
     description |-> "Items of type", type |-> type]

\* The bytes fmt.Sprintf appends to the path: "[]." under an array, "." under an object.
ArrayStep == <<91, 93, 46>>
ObjectStep == <<46>>

\* The lines processSchemaProperties writes for sch, in order.
RECURSIVE processSchemaProperties(_, _, _, _)
RECURSIVE walkProperties(_, _, _, _, _, _)
walkProperties(properties, propNames, path, step, depth, maxDepth) ==
    IF propNames = <<>> THEN <<>>
    ELSE LET propName == Head(propNames)
             rest == walkProperties(properties, Tail(propNames), path, step,
                                    depth, maxDepth)
         IN  IF IsNil(properties[propName]) THEN rest
             ELSE LET prop == Val(properties[propName])
                      propPath == path \o step \o propName
                  IN  <<FieldLine(depth, propPath, prop)>>
                      \o processSchemaProperties(prop, propPath, depth + 1, maxDepth)
                      \o rest

processSchemaProperties(sch, path, depth, maxDepth) ==
    IF depth > maxDepth THEN <<>>
    ELSE IF sch.Type = "array" /\ ~IsNil(sch.Items)
    THEN LET arrayItemSchema == Val(sch.Items)
         IN  IF arrayItemSchema.Type = "object"
                /\ DOMAIN arrayItemSchema.Properties # {}
             THEN walkProperties(arrayItemSchema.Properties,
                                 SortStrings(DOMAIN arrayItemSchema.Properties),
                                 path, ArrayStep, depth, maxDepth)
             ELSE IF arrayItemSchema.Type # ""
             THEN <<ItemsLine(depth, path, arrayItemSchema.Type)>>
             ELSE <<>>
    ELSE IF sch.Type = "object" /\ DOMAIN sch.Properties # {}
    THEN walkProperties(sch.Properties, SortStrings(DOMAIN sch.Properties),
                        path, ObjectStep, depth, maxDepth)
    ELSE <<>>

\* The maximum depth createResponseTemplate passes to the walker.
maxDepth == 10

\* The top-level lines of one response schema and what the walker adds below each.
RECURSIVE topLevelLines(_, _)
topLevelLines(properties, propNames) ==
    IF propNames = <<>> THEN <<>>
    ELSE LET propName == Head(propNames)
             rest == topLevelLines(properties, Tail(propNames))
         IN  IF IsNil(properties[propName]) THEN rest
             ELSE LET prop == Val(properties[propName])
                  IN  <<FieldLine(0, propName, prop)>>
                      \o processSchemaProperties(prop, propName, 1, maxDepth)
                      \o rest

\* The bytes of "items".
ItemsPath == <<105, 116, 101, 109, 115>>

\* What the loop over the response's content types writes, visited in ctOrder.
RECURSIVE contentLines(_, _)
contentLines(content, ctOrder) ==
    IF ctOrder = <<>> THEN <<>>
    ELSE LET contentType == Head(ctOrder)
             mediaType == content[contentType]
             rest == contentLines(content, Tail(ctOrder))
         IN  IF IsNil(mediaType.Schema) THEN rest
             ELSE LET sch == Val(mediaType.Schema)
                      head == [kind |-> "content-type", indent |-> 0, path |-> <<>>,
                               description |-> contentType, type |-> ""]
                  IN  <<head>> \o
                      (IF sch.Type = "array" /\ ~IsNil(sch.Items)
                       THEN <<[kind |-> "field", indent |-> 0, path |-> ItemsPath,
                               description |-> "Array of items", type |-> "array"]>>
                            \o processSchemaProperties(Val(sch.Items), ItemsPath, 1, maxDepth)
                       ELSE IF sch.Type = "object" /\ DOMAIN sch.Properties # {}
                       THEN topLevelLines(sch.Properties, SortStrings(DOMAIN sch.Properties))
                       ELSE <<>>)
                      \o rest

\* The responses the search for the success response can stop at: nil when
\* no code starts with "2" and is resolved.
successResponse(operation) ==
    IF IsNil(operation.Responses) THEN {Nil}
    ELSE LET responses == Val(operation.Responses)
             hits == {code \in DOMAIN responses :
                        HasPrefix2(code) /\ ~IsNil(responses[code])}
         IN  IF hits = {} THEN {Nil} ELSE {responses[code] : code \in hits}

\* The assignments to template.PrependBody with the second one left out.
assignPrependBodyOnce(text) == text

\* template.PrependBody = prependBody.String(); template.PrependBody = "":
\* the value the field is left with, text being the builder's string (it
\* always starts with the heading "# API Response Information").
assignPrependBody(text) == ""

\* Every result of createResponseTemplate, with the text the builder held
\* when it was copied to PrependBody (before that field is cleared again).
createResponseTemplate(operation) ==
    UNION {
        IF IsNil(resp) \/ DOMAIN Val(resp).Content = {}
        THEN {[template |-> ResponseTemplate, prependBody |-> <<>>]}
        ELSE {[template |-> [ResponseTemplate EXCEPT
                                !.PrependBody = assignPrependBody("# API Response Information")],
               prependBody |-> contentLines(Val(resp).Content, o)] :
                 o \in Orders(DOMAIN Val(resp).Content)}
        : resp \in successResponse(operation)}

(***************************************************************************)
(* convertOperation                                                        *)
(***************************************************************************)
getDescription(operation) ==
    IF operation.Summary # ""
    THEN IF operation.Description # ""
         THEN operation.Summary \o " - " \o operation.Description
         ELSE operation.Summary
    ELSE operation.Description

\* Parser.GetOperationID: the operation's declared identifier.
GetOperationID(path, method, operation) == operation.OperationID

\* SortArgs with the sort left out.
SortArgsSkipped(args) == args

\* sort.Slice(tool.Args, by Name)
SortArgs(args) == SortSlice(args, "Name")

\* The "annotations" fragment of the raw document for one operation: absent
\* (nil), or present; json.Unmarshal into a map fails unless it is an object.
annotationsError(operation) ==
    ~IsNil(operation.Annotations) /\ ~Val(operation.Annotations).isObject

\* The appends with a body argument dropped when a parameter has its name.
appendArgsDistinctNames(args, bodyArgs) ==
    args \o SelectSeq(bodyArgs,
                      LAMBDA a : \A k \in 1..Len(args) : args[k].Name # a.Name)

\* tool.Args = append(tool.Args, args...); append(tool.Args, bodyArgs...)
appendArgs(args, bodyArgs) == args \o bodyArgs

\* Every result of convertOperation: [tool, err], err = <<>> for a nil error.
convertOperation(copts, path, method, operation) ==
    IF annotationsError(operation)
    THEN {[tool |-> Nil,
           err |-> <<"failed to parse annotations for", method, path>>]}
    ELSE {[tool |-> Some(
             [Name |-> copts.ToolNamePrefix \o GetOperationID(path, method, operation),
              Description |-> getDescription(operation),
              Args |-> SortArgs(appendArgs(convertParameters(operation.Parameters),
                                           bodyArgs)),
              Annotations |-> IF IsNil(operation.Annotations) THEN <<>>
                              ELSE Val(operation.Annotations).object,
              RequestTemplate |-> requestTemplate,
              ResponseTemplate |-> response.template,
              Security |-> Nil]),
           err |-> <<>>] :
             bodyArgs \in convertRequestBody(operation.RequestBody),
             requestTemplate \in createRequestTemplate(path, method, operation),
             response \in createResponseTemplate(operation)}

(***************************************************************************)
(* applyTemplate                                                           *)
(***************************************************************************)
\* The header merge with the override's headers put first.
mergeHeadersOverrideFirst(generated, override) ==
    IF Len(override) > 0 THEN override \o generated ELSE generated

\* "Merge headers": append(generated, override...) when the override has any.
mergeHeaders(generated, override) ==
    IF Len(override) > 0 THEN generated \o override ELSE generated

\* The flag merge as a plain overwrite by the override's value.
mergeFlagOverwrite(generated, override) == override

\* if override { generated = true }, for each of the three ArgsTo... flags.
mergeFlag(generated, override) == IF override THEN TRUE ELSE generated

\* The string merge as a plain overwrite by the override's value.
mergeStringOverwrite(generated, override) == override

\* if override != "" { generated = override }, for Body, PrependBody, AppendBody.
mergeString(generated, override) == IF override # "" THEN override ELSE generated

\* if override != nil { generated = override }, for the security references.
mergeSecurity(generated, override) == IF ~IsNil(override) THEN override ELSE generated

\* The merge of the tool template into one tool (the body of the loop).
applyToolTemplate(tool, tt) ==
    LET rq == IF IsNil(tt.RequestTemplate) THEN tool.RequestTemplate
              ELSE LET o == Val(tt.RequestTemplate)
                       g == tool.RequestTemplate
                   IN  [g EXCEPT
                          !.Headers = mergeHeaders(g.Headers, o.Headers),
                          !.Body = mergeString(g.Body, o.Body),
                          !.ArgsToJsonBody = mergeFlag(g.ArgsToJsonBody, o.ArgsToJsonBody),
                          !.ArgsToUrlParam = mergeFlag(g.ArgsToUrlParam, o.ArgsToUrlParam),
                          !.ArgsToFormBody = mergeFlag(g.ArgsToFormBody, o.ArgsToFormBody),
                          !.Security = mergeSecurity(g.Security, o.Security)]
        rs == IF IsNil(tt.ResponseTemplate) THEN tool.ResponseTemplate
              ELSE LET o == Val(tt.ResponseTemplate)
                       g == tool.ResponseTemplate
                   IN  [g EXCEPT
                          !.Body = mergeString(g.Body, o.Body),
                          !.PrependBody = mergeString(g.PrependBody, o.PrependBody),
                          !.AppendBody = mergeString(g.AppendBody, o.AppendBody)]
    IN  [tool EXCEPT !.RequestTemplate = rq,
                     !.ResponseTemplate = rs,
                     !.Security = mergeSecurity(tool.Security, tt.Security)]

\* The security scheme list with the override's schemes added to the
\* generated ones.
applySecuritySchemesAppend(generated, override) == generated \o override

\* The security scheme list after the template is applied.
applySecuritySchemes(generated, override) ==
    IF Len(override) > 0 THEN override ELSE generated

\* The server merge taking the override's name and base URL too.
applyServerWithName(server, override) ==
    [server EXCEPT
        !.Name = IF override.Name # "" THEN override.Name ELSE @,
        !.BaseURL = IF override.BaseURL # "" THEN override.BaseURL ELSE @,
        !.SecuritySchemes = applySecuritySchemes(@, override.SecuritySchemes)]

\* What applyTemplate assigns in config.Server (the entries of the Config
\* map apart): the security schemes.
applyServer(server, override) ==
    [server EXCEPT
        !.SecuritySchemes = applySecuritySchemes(@, override.SecuritySchemes)]

\* The server config merge with the generated value kept on a key collision.
mergeServerConfigGeneratedWins(map, override) ==
    IF IsNil(override) THEN map ELSE map @@ Val(override)

\* "Apply server config": config.Server.Config[k] = v for every key of the
\* override's map, on the map contents map.
mergeServerConfig(map, override) ==
    IF IsNil(override) THEN map ELSE Val(override) @@ map

\* applyTemplate on config, whose Server.Config refers to the map object with
\* contents map: [config, map, err].
applyTemplate(config, map, file) ==
    IF ~file.readable
    THEN [config |-> config, map |-> map,
          err |-> <<"failed to read template file">>]
    ELSE IF ~file.wellFormed
    THEN [config |-> config, map |-> map,
          err |-> <<"failed to parse template">>]
    ELSE LET t == file.template
             map1 == mergeServerConfig(map, t.Server.Config)
             tools1 == IF ~IsNil(t.Tools.RequestTemplate)
                          \/ ~IsNil(t.Tools.ResponseTemplate)
                          \/ ~IsNil(t.Tools.Security)
                       THEN [i \in 1..Len(config.Tools) |->
                               applyToolTemplate(config.Tools[i], t.Tools)]
                       ELSE config.Tools
         IN  [config |-> [config EXCEPT
                            !.Server = applyServer(@, t.Server),
                            !.Tools = tools1],
              map |-> map1,
              err |-> <<>>]

(***************************************************************************)
(* Convert                                                                 *)
(***************************************************************************)
Methods == {"get", "post", "put", "delete", "options", "head", "patch", "trace"}

\* getOperations: the methods of a path item that carry an operation.
getOperations(pathItem) ==
    [m \in {m \in Methods : ~IsNil(pathItem[m])} |-> Val(pathItem[m])]

\* sort.Slice(config.Server.SecuritySchemes, by ID)
SortSecuritySchemes(schemes) == SortSlice(schemes, "ID")

\* SortTools with the sort left out.
SortToolsSkipped(tools) == tools

\* sort.Slice(config.Tools, by Name)
SortTools(tools) == SortSlice(tools, "Name")

\* The scheme list built by visiting the document's schemes in idOrder.
RECURSIVE collectSchemes(_, _)
collectSchemes(schemes, idOrder) ==
    IF idOrder = <<>> THEN <<>>
    ELSE LET name == Head(idOrder)
             rest == collectSchemes(schemes, Tail(idOrder))
         IN  IF IsNil(schemes[name]) THEN rest
             ELSE LET scheme == Val(schemes[name])
                  IN  <<[ID |-> name, Type |-> scheme.Type, Scheme |-> scheme.Scheme,
                         In |-> scheme.In, Name |-> scheme.Name,
                         DefaultCredential |-> ""]>> \o rest

\* "Process security schemes": every list the block can leave in the config.
documentSecuritySchemes(doc) ==
    IF IsNil(doc.Components) \/ IsNil(Val(doc.Components).SecuritySchemes)
    THEN {<<>>}
    ELSE LET schemes == Val(Val(doc.Components).SecuritySchemes)
         IN  {SortSecuritySchemes(collectSchemes(schemes, o)) :
                o \in Orders(DOMAIN schemes)}

\* serverName with the caller's name kept when the caller supplied one.
serverNameCallerFirst(copts, doc) ==
    IF copts.ServerName # "openapi-server" THEN copts.ServerName
    ELSE IF ~IsNil(doc.Info)
    THEN Val(doc.Info).Title \o " - " \o Val(doc.Info).Description
    ELSE "openapi-server"

\* The server name Convert gives the configuration.
serverName(copts, doc) ==
    LET name == IF copts.ServerName # "" THEN copts.ServerName
                ELSE "openapi-server"
    IN  IF ~IsNil(doc.Info)
        THEN Val(doc.Info).Title \o " - " \o Val(doc.Info).Description
        ELSE name

\* Every order in which the two nested loops can visit the operations:
\* sequences of <<path, method>>, the methods of one path together.
RECURSIVE visitOrders(_, _)
visitOrders(paths, pathOrder) ==
    IF pathOrder = <<>> THEN {<<>>}
    ELSE LET path == Head(pathOrder)
             operations == getOperations(paths[path])
         IN  {[i \in 1..Len(mo) |-> <<path, mo[i]>>] \o rest :
                mo \in Orders(DOMAIN operations),
                rest \in visitOrders(paths, Tail(pathOrder))}

\* convertFailed returning the configuration built so far with the error.
convertFailedPartial(tools, err) ==
    [config |-> Some([Server |-> [Name |-> "", BaseURL |-> "", Config |-> "",
                                  SecuritySchemes |-> <<>>],
                      Tools |-> tools]),
     err |-> err]

\* What Convert returns when an operation, or the template, fails: tools are
\* the tools converted so far.
convertFailed(tools, err) == [config |-> Nil, err |-> err]

\* The loop over the operations in the order visit, from the tools built so
\* far: [tools, err] at the point where the loop is left.
RECURSIVE convertOperations(_, _, _, _)
convertOperations(copts, paths, visit, tools) ==
    IF visit = <<>> THEN {[tools |-> tools, err |-> <<>>]}
    ELSE LET path == Head(visit)[1]
             method == Head(visit)[2]
             operation == getOperations(paths[path])[method]
         IN  UNION {
               IF r.err # <<>>
               THEN {[tools |-> tools,
                      err |-> <<"failed to convert operation", method, path>> \o r.err]}
               ELSE convertOperations(copts, paths, Tail(visit),
                                      Append(tools, Val(r.tool)))
               : r \in convertOperation(copts, path, method, operation)}

\* Parser.GetPaths: the document's path items.
GetPaths(p) == Val(p.doc).Paths

\* The reference held in Server.Config: the map object of the options.
ServerConfigRef == "&options.ServerConfig"

\* Every result of Convert: [config, err, map], map being the contents of the
\* options' server config map when Convert returns.
ConvertReturns(p, copts, map, file) ==
    IF IsNil(p.doc)
    THEN {[config |-> Nil, err |-> <<"no OpenAPI document loaded">>, map |-> map]}
    ELSE
    LET doc == Val(p.doc)
        baseURL == IF Len(doc.Servers) > 0 THEN doc.Servers[1].URL ELSE ""
        server(schemes) ==
            [Name |-> serverName(copts, doc), BaseURL |-> baseURL,
             Config |-> ServerConfigRef, SecuritySchemes |-> schemes]
        finish(config) ==
            [config |-> Some([config EXCEPT !.Tools = SortTools(@)]), err |-> <<>>]
    IN  UNION {
          IF built.err # <<>>
          THEN {convertFailed(built.tools, built.err) @@ [map |-> map]}
          ELSE LET config == [Server |-> server(schemes), Tools |-> built.tools]
               IN  IF copts.TemplatePath # ""
                   THEN LET applied == applyTemplate(config, map, file)
                        IN  IF applied.err # <<>>
                            THEN {convertFailed(built.tools,
                                      <<"failed to apply template">> \o applied.err)
                                  @@ [map |-> applied.map]}
                            ELSE {finish(applied.config) @@ [map |-> applied.map]}
                   ELSE {finish(config) @@ [map |-> map]}
          : schemes \in documentSecuritySchemes(doc),
            built \in UNION {convertOperations(copts, GetPaths(p), visit, <<>>) :
                        visit \in UNION {visitOrders(GetPaths(p), po) :
                                    po \in Orders(DOMAIN GetPaths(p))}}}

(***************************************************************************)
(* NewConverter                                                            *)
(***************************************************************************)
\* The options the converter keeps: the caller's, with the defaults set.
NewConverterOptions(opts) ==
    [opts EXCEPT !.ServerName = IF @ = "" THEN "openapi-server" ELSE @,
                 !.ServerConfig = IF IsNil(@) THEN Some(ServerConfigRef) ELSE @]

(***************************************************************************)
(* The inputs of the model: documents, options and template files.         *)
(***************************************************************************)
MaxParams == 2     \* declared parameters of an operation

NameA == <<97>>
NameB == <<98>>
NameC == <<99>>

Param(name, in, required, type) ==
    Some([Name |-> name, Description |-> "", Required |-> required, In |-> in,
          Schema |-> Some(Schema(type))])

\* A parameter reference: unresolved, or one of four declared parameters.
ParamChoices ==
    {Nil, Param(NameB, "path", TRUE, "string"), Param(NameA, "query", FALSE, "integer"),
     Param(NameA, "header", FALSE, "string"), Param(NameC, "cookie", FALSE, "string")}

ParameterLists == UNION {[1..n -> ParamChoices] : n \in 0..MaxParams}

\* An object schema with the given properties.
Object(properties) == [Schema("object") EXCEPT !.Properties = properties]

Media(sch) == [Schema |-> Some(sch)]

Body(content) == Some([Content |-> content])

PropsAB == (NameA :> Some(Schema("string"))) @@ (NameB :> Some(Schema("integer")))
PropsBC == (NameB :> Some([Schema("string") EXCEPT !.Description = "from form"]))
           @@ (NameC :> Nil)
PropsNested ==
    (NameA :> Some(Object(NameB :> Some(Schema("string")))))
    @@ (NameB :> Some([Schema("array") EXCEPT !.Items = Some(Schema("string"))]))
    @@ (NameC :> Some([Schema("") EXCEPT !.AllOf = <<Some(Object(PropsAB))>>]))

\* A schema with no type and the one allOf member given.
AllOfOne(member) == [Schema("") EXCEPT !.AllOf = <<Some(member)>>]

\* a: allOf of one object; b: allOf of one object with a property c that is
\* an allOf of one object itself and a described property a.
PropsAllOf ==
    (NameA :> Some(AllOfOne(Object(PropsAB))))
    @@ (NameB :> Some(AllOfOne(Object(
            (NameC :> Some(AllOfOne(Object(PropsAB))))
            @@ (NameA :> Some([Schema("string") EXCEPT !.Description = "inner"]))))))

\* Request bodies: none, no content, one or two content types.
RequestBodies ==
    {Nil,
     Body("application/json" :> Media(Object(PropsAllOf))),
     Body(<<>>),
     Body("application/json" :> Media(Object(PropsAB))),
     Body("application/json" :> Media(Object(PropsNested))),
     Body("application/json" :> Media(Schema("string"))),
     Body("application/xml" :> Media(Object(PropsAB))),
     Body("application/json" :> [Schema |-> Nil]),
     Body(("application/json" :> Media(Object(PropsAB)))
          @@ ("application/xml" :> Media(Object(PropsAB)))),
     Body(("application/json" :> Media(Object(PropsAB)))
          @@ ("application/x-www-form-urlencoded" :> Media(Object(PropsBC))))}

Requirement(names) == [n \in names |-> <<>>]

\* Security requirements: none declared, an empty list, and lists whose
\* first requirement names no, one or two schemes.
SecurityLists ==
    {Nil,
     Some(<<>>),
     Some(<<Requirement({NameA})>>),
     Some(<<Requirement({NameB}), Requirement({NameA})>>),
     Some(<<Requirement({NameA, NameB})>>),
     Some(<<Requirement({}), Requirement({NameB})>>),
     Some(<<Requirement({})>>)}

Response(content) == Some([Content |-> content])

ResponseMaps ==
    {Nil,
     Some("404" :> Response(<<>>)),
     Some("200" :> Response(<<>>)),
     Some(("200" :> Response("application/json" :> Media(Object(PropsNested))))
          @@ ("201" :> Response("application/json" :> Media(
                 [Schema("array") EXCEPT !.Items = Some(Object(PropsAB))])))),
     Some("200" :> Nil)}

AnnotationFragments ==
    {Nil, Some([isObject |-> TRUE, object |-> ("readOnlyHint" :> TRUE)]),
     Some([isObject |-> FALSE, object |-> <<>>])}

\* An operation with the given identifier and nothing else declared.
BaseOp(id) ==
    [OperationID |-> id, Summary |-> "", Description |-> "",
     Parameters |-> <<>>, RequestBody |-> Nil, Security |-> Nil,
     Responses |-> Nil, Annotations |-> Nil]

\* Operations that vary one declared part, and those that pair every
\* parameter list with a body declaring properties of the same names.
Operations ==
    {[BaseOp(NameB) EXCEPT !.Parameters = ps] : ps \in ParameterLists}
    \cup {[BaseOp(NameB) EXCEPT !.RequestBody = rb] : rb \in RequestBodies}
    \cup {[BaseOp(NameB) EXCEPT !.Security = sec] : sec \in SecurityLists}
    \cup {[BaseOp(NameB) EXCEPT !.Responses = rs] : rs \in ResponseMaps}
    \cup {[BaseOp(NameB) EXCEPT !.Annotations = an] : an \in AnnotationFragments}
    \cup {[BaseOp(NameB) EXCEPT !.Summary = sm, !.Description = ds] :
            sm \in {"", "List"}, ds \in {"", "all pets"}}
    \cup {[BaseOp(NameB) EXCEPT
             !.Parameters = ps,
             !.RequestBody = Body(("application/json" :> Media(Object(PropsAB)))
                 @@ ("application/x-www-form-urlencoded" :> Media(Object(PropsBC))))] :
            ps \in ParameterLists}

\* The operations of the documents that declare several.
SmallOps ==
    {BaseOp(NameA), BaseOp(NameC),
     [BaseOp(NameB) EXCEPT !.Security = Some(<<Requirement({NameA})>>),
                           !.RequestBody = Body("application/json" :> Media(Object(PropsAB)))],
     [BaseOp(NameB) EXCEPT !.Annotations = Some([isObject |-> FALSE, object |-> <<>>])]}

\* The places of a document's operations, in the order the model fills them.
Slots == <<<<"/a", "get">>, <<"/b", "post">>, <<"/a", "post">>, <<"/b", "get">>>>

NoPathItem == [m \in Methods |-> Nil]

\* The path items holding ops[i] at Slots[i].
PathsOf(ops) ==
    LET used == {Slots[i][1] : i \in 1..Len(ops)}
    IN  [path \in used |->
            [m \in Methods |->
                IF \E i \in 1..Len(ops) : Slots[i] = <<path, m>>
                THEN Some(ops[CHOOSE i \in 1..Len(ops) : Slots[i] = <<path, m>>])
                ELSE Nil]]

Scheme(type, scheme, in, name) ==
    Some([Type |-> type, Scheme |-> scheme, In |-> in, Name |-> name])

SchemesBA ==
    (NameB :> Scheme("http", "basic", "", ""))
    @@ (NameA :> Scheme("apiKey", "", "header", "X-API-KEY"))

ComponentsChoices ==
    {Nil, Some([SecuritySchemes |-> Nil]), Some([SecuritySchemes |-> Some(SchemesBA)]),
     Some([SecuritySchemes |-> Some(SchemesBA @@ (NameC :> Nil))])}

InfoChoices ==
    {Nil, Some([Title |-> "Petstore", Description |-> "A pet API"]),
     Some([Title |-> "", Description |-> ""])}

ServersChoices == {<<>>, <<[URL |-> "https://a.example"], [URL |-> "https://b.example"]>>}

Doc(info, servers, components, ops) ==
    [Info |-> info, Servers |-> servers, Components |-> components,
     Paths |-> PathsOf(ops)]

\* Up to MaxOps operations of SmallOps; operation identifiers are unique in a
\* document.
OpLists ==
    {ops \in UNION {[1..n -> SmallOps] : n \in 0..MaxOps} :
        \A i, j \in 1..Len(ops) : i # j => ops[i].OperationID # ops[j].OperationID}

\* Documents with one operation of Operations, documents with up to MaxOps
\* operations of SmallOps, and documents that vary the document-level parts.
Documents ==
    {Doc(Some([Title |-> "Petstore", Description |-> "A pet API"]), <<>>,
         Some([SecuritySchemes |-> Some(SchemesBA)]), <<op>>) : op \in Operations}
    \cup {Doc(Nil, <<>>, Nil, ops) : ops \in OpLists}
    \cup {Doc(info, servers, components, <<BaseOp(NameA)>>) :
            info \in InfoChoices, servers \in ServersChoices,
            components \in ComponentsChoices}

Parsers == {[doc |-> Nil]} \cup {[doc |-> Some(d)] : d \in Documents}

Options(name, serverConfig, prefix, templatePath) ==
    [ServerName |-> name, ServerConfig |-> serverConfig,
     ToolNamePrefix |-> prefix, TemplatePath |-> templatePath]

\* The contents of the server config map a caller supplies.
CallerConfig == "region" :> "caller"

\* The contents of the options' map object when the caller built the options.
CallerMap(opts) == IF IsNil(opts.ServerConfig) THEN <<>> ELSE CallerConfig

NoTemplateOptions ==
    {Options(sn, Nil, prefix, "") : sn \in {"", "my-server"}, prefix \in {<<>>, <<112>>}}

AllOptions ==
    {Options(sn, sc, prefix, tp) :
        sn \in {"", "my-server"}, sc \in {Nil, Some(ServerConfigRef)},
        prefix \in {<<>>, <<112>>}, tp \in {"", "template.yaml"}}

\* models.MCPConfigTemplate, zero value: what an empty template file parses to.
MCPConfigTemplate ==
    [Server |-> [Name |-> "", BaseURL |-> "", Config |-> Nil, SecuritySchemes |-> <<>>],
     Tools |-> [RequestTemplate |-> Nil, ResponseTemplate |-> Nil, Security |-> Nil]]

TemplateScheme(id, cred) ==
    [ID |-> id, Type |-> "apiKey", Scheme |-> "", In |-> "header",
     Name |-> "X-API-KEY", DefaultCredential |-> cred]

TemplateRequest ==
    [RequestTemplate EXCEPT
        !.Headers = <<[Key |-> "Authorization", Value |-> "Bearer X"]>>,
        !.ArgsToJsonBody = TRUE,
        !.Security = Some([ID |-> NameC, Passthrough |-> TRUE])]

TemplateResponse == [ResponseTemplate EXCEPT !.Body = "{{.}}"]

\* Override templates: the empty one, those that set one part, and one that
\* sets every part.
Templates ==
    {MCPConfigTemplate,
     [MCPConfigTemplate EXCEPT !.Server.Config = Some("apiKey" :> "")],
     [MCPConfigTemplate EXCEPT !.Server.Config = Some("region" :> "template")],
     [MCPConfigTemplate EXCEPT !.Server.Name = "override",
                               !.Server.BaseURL = "https://override.example"],
     [MCPConfigTemplate EXCEPT !.Server.SecuritySchemes =
        <<TemplateScheme(NameC, "secret"), TemplateScheme(NameA, "")>>],
     [MCPConfigTemplate EXCEPT !.Server.SecuritySchemes =
        <<TemplateScheme(NameA, "secret")>>],
     [MCPConfigTemplate EXCEPT !.Tools.RequestTemplate = Some(TemplateRequest)],
     [MCPConfigTemplate EXCEPT !.Tools.ResponseTemplate = Some(TemplateResponse)],
     [MCPConfigTemplate EXCEPT
        !.Tools.Security = Some([ID |-> NameA, Passthrough |-> FALSE])],
     [MCPConfigTemplate EXCEPT
        !.Server.Config = Some("apiKey" :> ""),
        !.Server.SecuritySchemes =
            <<TemplateScheme(NameA, ""), TemplateScheme(NameB, "secret")>>,
        !.Tools.RequestTemplate = Some(TemplateRequest),
        !.Tools.ResponseTemplate = Some(TemplateResponse),
        !.Tools.Security = Some([ID |-> NameA, Passthrough |-> FALSE])]}

File(readable, wellFormed, template) ==
    [readable |-> readable, wellFormed |-> wellFormed, template |-> template]

\* No file: what os.ReadFile finds when the path names nothing.
NoFile == File(FALSE, FALSE, MCPConfigTemplate)

TemplateFiles ==
    {NoFile, File(TRUE, FALSE, MCPConfigTemplate)}
    \cup {File(TRUE, TRUE, t) : t \in Templates}

\* The template files every document is converted with: none at the path, one
\* that replaces the security schemes, and one that sets every part.
KeyFiles ==
    {NoFile,
     File(TRUE, TRUE, [MCPConfigTemplate EXCEPT !.Server.SecuritySchemes =
        <<TemplateScheme(NameC, "secret"), TemplateScheme(NameA, "")>>]),
     File(TRUE, TRUE, [MCPConfigTemplate EXCEPT
        !.Server.Config = Some("apiKey" :> ""),
        !.Server.SecuritySchemes =
            <<TemplateScheme(NameA, ""), TemplateScheme(NameB, "secret")>>,
        !.Tools.RequestTemplate = Some(TemplateRequest),
        !.Tools.ResponseTemplate = Some(TemplateResponse),
        !.Tools.Security = Some([ID |-> NameA, Passthrough |-> FALSE])])}

\* The documents converted under every combination of options and template.
SmallParsers ==
    {[doc |-> Nil],
     [doc |-> Some(Doc(Nil, <<>>, Some([SecuritySchemes |-> Some(SchemesBA)]),
                       <<BaseOp(NameC), BaseOp(NameA)>>))],
     [doc |-> Some(Doc(Nil, <<>>, Nil,
         <<[BaseOp(NameB) EXCEPT
              !.Parameters = <<Param(NameB, "path", TRUE, "string")>>,
              !.Security = Some(<<Requirement({NameA})>>),
              !.RequestBody = Body("application/json" :> Media(Object(PropsAB)))]>>))]}

\* [parser, options, file]: what a caller can hand to NewConverter and Convert.
Inputs ==
    {[parser |-> p, options |-> o, file |-> NoFile] :
        p \in Parsers, o \in NoTemplateOptions}
    \cup {[parser |-> p, options |-> Options("", Nil, <<>>, "template.yaml"), file |-> f] :
            p \in Parsers, f \in KeyFiles}
    \cup UNION {{[parser |-> p, options |-> o, file |-> f] :
                    p \in SmallParsers,
                    f \in IF o.TemplatePath = "" THEN {NoFile} ELSE TemplateFiles} :
                 o \in AllOptions}

(***************************************************************************)
(* The converter as a state machine.                                       *)
(***************************************************************************)
Init ==
    /\ \E in \in Inputs :
        /\ parser = in.parser
        /\ options = in.options
        /\ mapObj = CallerMap(in.options)
        /\ templateFile = in.file
    /\ c = Nil
    /\ results = <<>>
    /\ schema = Schema("")
    /\ written = Nil
    /\ generatedConfig = Nil
    /\ merged = Nil
    /\ schemas = <<>>
    /\ stack = <<>>

\* converter.NewConverter(parser, options)
NewConverter ==
    /\ IsNil(c)
    /\ c' = Some([options |-> NewConverterOptions(options)])
    /\ UNCHANGED <<parser, options, mapObj, templateFile, results, schema, written,
                   generatedConfig, merged, schemas, stack>>

\* c.Convert(): one call, from entry to return.
Convert ==
    /\ ~IsNil(c)
    /\ Len(results) < MaxRuns
    /\ \E r \in ConvertReturns(parser, Val(c).options, mapObj, templateFile) :
        /\ results' = Append(results, [config |-> r.config, err |-> r.err,
                                       serverConfig |-> r.map])
        /\ mapObj' = r.map
    /\ UNCHANGED <<parser, options, templateFile, c, schema, written, generatedConfig, merged,
                   schemas, stack>>

Next == NewConverter \/ Convert

Spec == Init /\ [][Next]_vars

(***************************************************************************)
(* The Schema Walker on its own: createResponseTemplate on an operation    *)
(* whose only response is a 200 with one JSON schema.                      *)
(***************************************************************************)
\* n levels of nested objects, each with a nested property a and a scalar
\* property b; level k (counted from the innermost, 0 for none) is an array
\* of such objects instead.
RECURSIVE Nested(_, _)
Nested(n, k) ==
    IF n = 0 THEN Schema("string")
    ELSE LET inner == Object((NameA :> Some(Nested(n - 1, k)))
                             @@ (NameB :> Some(Schema("integer"))))
         IN  IF n = k THEN [Schema("array") EXCEPT !.Items = Some(inner)]
             ELSE inner

WalkSchemas == {Nested(n, k) : n \in 1..MaxLevels, k \in 0..MaxLevels}

ResponseOp(sch) ==
    [BaseOp(NameA) EXCEPT
        !.Responses = Some("200" :> Response("application/json" :> Media(sch)))]

InitWalk ==
    /\ parser = [doc |-> Nil]
    /\ options = Options("", Nil, <<>>, "")
    /\ mapObj = <<>>
    /\ templateFile = NoFile
    /\ c = Nil
    /\ results = <<>>
    /\ schema \in WalkSchemas
    /\ written = Nil
    /\ generatedConfig = Nil
    /\ merged = Nil
    /\ schemas = <<>>
    /\ stack = <<>>

\* c.createResponseTemplate(operation): records what the walker wrote.
Walk ==
    /\ IsNil(written)
    /\ \E r \in createResponseTemplate(ResponseOp(schema)) :
        written' = Some(r.prependBody)
    /\ UNCHANGED <<parser, options, mapObj, templateFile, c, results, schema,
                   generatedConfig, merged, schemas, stack>>

NextWalk == Walk

SpecWalk == InitWalk /\ [][NextWalk]_vars

(***************************************************************************)
(* The Template Merger on its own: applyTemplate on a generated            *)
(* configuration.                                                          *)
(***************************************************************************)
MaxTools == 2      \* tools of a generated configuration

\* models.Header
Header(key, value) == [Key |-> key, Value |-> value]

ContentTypeJSON == Header("Content-Type", "application/json")
Authorization == Header("Authorization", "Bearer X")

\* A tool as convertOperation leaves it, with the two templates given.
GeneratedTool(name, requestTemplate, responseTemplate) ==
    [Name |-> name, Description |-> "", Args |-> <<>>, Annotations |-> <<>>,
     RequestTemplate |-> [requestTemplate EXCEPT !.URL = "/a", !.Method = "GET"],
     ResponseTemplate |-> responseTemplate, Security |-> Nil]

\* Header lists of a tool: none, the Content-Type header, and a header the
\* override repeats.
GeneratedHeaders == {<<>>, <<ContentTypeJSON>>, <<Authorization>>}

\* Header lists of an override: none, one header, and two headers of which
\* the second repeats a generated one.
OverrideHeaders == {<<>>, <<Authorization>>, <<Authorization, ContentTypeJSON>>}

RequestTemplates(headers, securities, bodies) ==
    {[RequestTemplate EXCEPT
        !.Headers = h, !.Body = b, !.Security = s,
        !.ArgsToJsonBody = j, !.ArgsToUrlParam = u, !.ArgsToFormBody = f] :
        h \in headers, s \in securities, b \in bodies,
        j \in BOOLEAN, u \in BOOLEAN, f \in BOOLEAN}

ResponseTemplates(text) ==
    {[Body |-> b, PrependBody |-> pb, AppendBody |-> ab] :
        b \in {"", text}, pb \in {"", text}, ab \in {"", text}}

\* Tools that vary the request template, and tools that vary the response
\* template.
MergeTools ==
    {GeneratedTool(NameA, rq, ResponseTemplate) :
        rq \in RequestTemplates(GeneratedHeaders,
                                {Nil, Some([ID |-> NameA, Passthrough |-> FALSE])}, {""})}
    \cup {GeneratedTool(NameA, RequestTemplate, rs) : rs \in ResponseTemplates("generated")}

\* The tools of the configurations with several tools.
SmallTools ==
    {[GeneratedTool(NameA, [RequestTemplate EXCEPT !.Headers = <<ContentTypeJSON>>],
                    ResponseTemplate)
        EXCEPT !.Description = "List - all pets",
               !.Args = <<[Arg EXCEPT !.Name = NameA, !.Type = "string",
                                      !.Position = "body", !.Enabled = TRUE],
                          [Arg EXCEPT !.Name = NameB, !.Type = "integer",
                                      !.Position = "path", !.Required = TRUE,
                                      !.Enabled = TRUE]>>],
     GeneratedTool(NameB, [RequestTemplate EXCEPT
                              !.ArgsToUrlParam = TRUE,
                              !.Security = Some([ID |-> NameB, Passthrough |-> FALSE])],
                   [ResponseTemplate EXCEPT !.PrependBody = "generated"]),
     GeneratedTool(NameC, [RequestTemplate EXCEPT !.Body = "{}"],
                   [ResponseTemplate EXCEPT !.Body = "generated"])}

\* A server config map of an override: one key the caller's map has too, and
\* one it has not.
TemplateConfig == ("region" :> "template") @@ ("timeout" :> "30")

\* Override templates: those of Templates, those that set only the request
\* template, those that set only the response template, and those that set
\* only a server config map of two keys or of none.
MergeTemplates ==
    Templates
    \cup {[MCPConfigTemplate EXCEPT !.Tools.RequestTemplate = Some(rq)] :
            rq \in RequestTemplates(OverrideHeaders,
                                    {Nil, Some([ID |-> NameC, Passthrough |-> TRUE])},
                                    {"", "{{toJson .args}}"})}
    \cup {[MCPConfigTemplate EXCEPT !.Tools.ResponseTemplate = Some(rs)] :
            rs \in ResponseTemplates("override")}
    \cup {[MCPConfigTemplate EXCEPT !.Server.Config = Some(TemplateConfig)],
          [MCPConfigTemplate EXCEPT !.Server.Config = Some(<<>>)]}

\* A generated configuration with the map contents its Server.Config refers to.
Generated(schemes, tools, map) ==
    [config |-> [Server |-> [Name |-> "openapi-server", BaseURL |-> "",
                             Config |-> ServerConfigRef, SecuritySchemes |-> schemes],
                 Tools |-> tools],
     map |-> map]

\* The scheme lists Convert derives from a document: none, and two in order.
GeneratedSchemes ==
    {<<>>, <<[TemplateScheme(NameA, "") EXCEPT !.Type = "http"],
             [TemplateScheme(NameB, "") EXCEPT !.Type = "http"]>>}

\* The contents of the server config map before the merge.
GeneratedMaps == {<<>>, CallerConfig, CallerConfig @@ ("apiKey" :> "caller")}

\* Up to MaxTools tools of SmallTools.
ToolLists == UNION {[1..n -> SmallTools] : n \in 0..MaxTools}

\* The template files applyTemplate fails on.
FailingFiles == {NoFile, File(TRUE, FALSE, MCPConfigTemplate)}

\* applyTemplate is about to be called on g with file at the template path.
MergeOf(g, file) ==
    /\ generatedConfig = Some(g)
    /\ templateFile = file

\* The configurations merged: one tool of MergeTools, or up to MaxTools tools
\* of SmallTools with every scheme list and map, under every template; and
\* one tool with the files that fail.
InitMerge ==
    /\ parser = [doc |-> Nil]
    /\ options = Options("", Nil, <<>>, "template.yaml")
    /\ mapObj = <<>>
    /\ c = Nil
    /\ results = <<>>
    /\ schema = Schema("")
    /\ written = Nil
    /\ merged = Nil
    /\ schemas = <<>>
    /\ stack = <<>>
    /\ \/ \E t \in MergeTools, tpl \in MergeTemplates :
            MergeOf(Generated(<<>>, <<t>>, <<>>), File(TRUE, TRUE, tpl))
       \/ \E schemes \in GeneratedSchemes, tools \in ToolLists,
             map \in GeneratedMaps, tpl \in MergeTemplates :
            MergeOf(Generated(schemes, tools, map), File(TRUE, TRUE, tpl))
       \/ \E t \in SmallTools, f \in FailingFiles :
            MergeOf(Generated(<<>>, <<t>>, CallerConfig), f)

\* c.applyTemplate(config): one call, from entry to return.
ApplyTemplate ==
    /\ ~IsNil(generatedConfig)
    /\ IsNil(merged)
    /\ merged' = Some(applyTemplate(Val(generatedConfig).config, Val(generatedConfig).map,
                                    templateFile))
    /\ UNCHANGED <<parser, options, mapObj, templateFile, c, results, schema, written,
                   generatedConfig, schemas, stack>>

NextMerge == ApplyTemplate

SpecMerge == InitMerge /\ [][NextMerge]_vars

(***************************************************************************)
(* The recursive schema traversals, call by call: allOfHandle and          *)
(* processSchemaProperties on schemas that refer to each other.            *)
(***************************************************************************)
MaxChain == 12     \* levels of a nested schema without a cycle
MaxStack == 14     \* nested calls the model follows a traversal for

\* A schema whose properties, items and allOf members are references
\* (*openapi3.SchemaRef) into the table of schemas.
Node(type, properties, items, allOf) ==
    [Type |-> type, Properties |-> properties, Items |-> items, AllOf |-> allOf]

\* Reference 0 is a string schema in every table.
Leaf == 0 :> Node("string", <<>>, Nil, <<>>)

\* n levels of objects whose property a is an allOf of the next level.
AllOfChain(n) ==
    Leaf
    @@ [k \in 1..(2 * n + 1) |->
          IF k = 2 * n + 1 THEN Node("object", NameB :> 0, Nil, <<>>)
          ELSE IF k % 2 = 1
          THEN Node("object", (NameA :> (k + 1)) @@ (NameB :> 0), Nil, <<>>)
          ELSE Node("", <<>>, Nil, <<k + 1>>)]

\* An object whose property a is an allOf of the object itself.
AllOfCycle ==
    Leaf @@ (1 :> Node("object", (NameA :> 2) @@ (NameB :> 0), Nil, <<>>))
         @@ (2 :> Node("", <<>>, Nil, <<1>>))

\* n levels of objects whose property a is the next level.
ObjectChain(n) ==
    Leaf
    @@ [k \in 1..(n + 1) |->
          IF k = n + 1 THEN Node("object", NameB :> 0, Nil, <<>>)
          ELSE Node("object", (NameA :> (k + 1)) @@ (NameB :> 0), Nil, <<>>)]

\* An object whose property a is the object itself.
ObjectCycle == Leaf @@ (1 :> Node("object", (NameA :> 1) @@ (NameB :> 0), Nil, <<>>))

\* An object whose property a is an array of the object itself.
ArrayCycle ==
    Leaf @@ (1 :> Node("object", (NameA :> 2) @@ (NameB :> 0), Nil, <<>>))
         @@ (2 :> Node("array", <<>>, Some(1), <<>>))

SchemaTables ==
    {AllOfChain(n) : n \in 1..MaxChain} \cup {ObjectChain(n) : n \in 1..MaxChain}
    \cup {AllOfCycle, ObjectCycle, ArrayCycle}

\* A call that has not returned: the function, the properties its loop
\* ranges over, the names the loop has not visited yet, and its depth
\* argument (0 for allOfHandle, which has none).
Frame(fn, properties, todo, depth) ==
    [fn |-> fn, properties |-> properties, todo |-> todo, depth |-> depth]

\* The call allOfHandle(ref) at its entry.
allOfHandleCall(table, ref) ==
    IF table[ref].Type = "object"
    THEN Frame("allOfHandle", table[ref].Properties, DOMAIN table[ref].Properties, 0)
    ELSE Frame("allOfHandle", <<>>, {}, 0)

\* The call processSchemaProperties(sb, ref, path, depth, depthLimit) at its
\* entry: nothing to visit beyond the limit, the item's properties for an
\* array of objects, the schema's own for an object.
processSchemaPropertiesCall(table, ref, depth, depthLimit) ==
    LET sch == table[ref]
        none == Frame("processSchemaProperties", <<>>, {}, depth)
    IN  IF depth > depthLimit THEN none
        ELSE IF sch.Type = "array" /\ ~IsNil(sch.Items)
        THEN LET arrayItemSchema == table[Val(sch.Items)]
             IN  IF arrayItemSchema.Type = "object"
                    /\ DOMAIN arrayItemSchema.Properties # {}
                 THEN Frame("processSchemaProperties", arrayItemSchema.Properties,
                            DOMAIN arrayItemSchema.Properties, depth)
                 ELSE none
        ELSE IF sch.Type = "object" /\ DOMAIN sch.Properties # {}
        THEN Frame("processSchemaProperties", sch.Properties,
                   DOMAIN sch.Properties, depth)
        ELSE none

\* A traversal is entered on schema 1 of a table: allOfHandle as
\* convertRequestBody calls it, processSchemaProperties as
\* createResponseTemplate calls it.
InitTraverse ==
    /\ parser = [doc |-> Nil]
    /\ options = Options("", Nil, <<>>, "")
    /\ mapObj = <<>>
    /\ templateFile = NoFile
    /\ c = Nil
    /\ results = <<>>
    /\ schema = Schema("")
    /\ written = Nil
    /\ generatedConfig = Nil
    /\ merged = Nil
    /\ schemas \in SchemaTables
    /\ \/ stack = <<allOfHandleCall(schemas, 1)>>
       \/ stack = <<processSchemaPropertiesCall(schemas, 1, 1, maxDepth)>>

Top == stack[Len(stack)]

\* The stack with propName taken off the names the innermost loop has left.
Visited(propName) ==
    [stack EXCEPT ![Len(stack)].todo = @ \ {propName}]

\* One turn of allOfHandle's loop over the properties, in the order the map
\* yields them: a property with no type and one allOf member is a nested call.
AllOfHandleVisit ==
    /\ stack # <<>>
    /\ Top.fn = "allOfHandle"
    /\ Len(stack) < MaxStack
    /\ \E propName \in Top.todo :
          LET prop == schemas[Top.properties[propName]]
          IN  stack' = IF prop.Type = "" /\ Len(prop.AllOf) = 1
                       THEN Append(Visited(propName),
                                   allOfHandleCall(schemas, prop.AllOf[1]))
                       ELSE Visited(propName)
    /\ UNCHANGED <<parser, options, mapObj, templateFile, c, results, schema, written,
                   generatedConfig, merged, schemas>>

\* allOfHandle returns when its loop has visited every property.
AllOfHandleReturn ==
    /\ stack # <<>>
    /\ Top.fn = "allOfHandle"
    /\ Top.todo = {}
    /\ stack' = SubSeq(stack, 1, Len(stack) - 1)
    /\ UNCHANGED <<parser, options, mapObj, templateFile, c, results, schema, written,
                   generatedConfig, merged, schemas>>

\* One turn of processSchemaProperties' loop over the sorted property names:
\* every property is a nested call with depth + 1.
ProcessSchemaPropertiesVisit ==
    /\ stack # <<>>
    /\ Top.fn = "processSchemaProperties"
    /\ Len(stack) < MaxStack
    /\ Top.todo # {}
    /\ LET propName == SortStrings(Top.todo)[1]
       IN  stack' = Append(Visited(propName),
                           processSchemaPropertiesCall(schemas, Top.properties[propName],
                                                       Top.depth + 1, maxDepth))
    /\ UNCHANGED <<parser, options, mapObj, templateFile, c, results, schema, written,
                   generatedConfig, merged, schemas>>

\* processSchemaProperties returns: at once beyond the depth limit or on a
\* schema with nothing to visit, else after its loop.
ProcessSchemaPropertiesReturn ==
    /\ stack # <<>>
    /\ Top.fn = "processSchemaProperties"
    /\ Top.todo = {}
    /\ stack' = SubSeq(stack, 1, Len(stack) - 1)
    /\ UNCHANGED <<parser, options, mapObj, templateFile, c, results, schema, written,
                   generatedConfig, merged, schemas>>

NextTraverse ==
    \/ AllOfHandleVisit
    \/ AllOfHandleReturn
    \/ ProcessSchemaPropertiesVisit
    \/ ProcessSchemaPropertiesReturn

SpecTraverse == InitTraverse /\ [][NextTraverse]_vars

(***************************************************************************)
(* Properties.                                                             *)
(***************************************************************************)
\* The calls of Convert that returned a configuration.
Returned == {i \in 1..Len(results) : ~IsNil(results[i].config)}

Config(i) == Val(results[i].config)

\* The operations of the loaded document, as <<path, method>>.
DocumentOps ==
    IF IsNil(parser.doc) THEN {}
    ELSE {pm \in (DOMAIN Val(parser.doc).Paths) \X Methods :
            ~IsNil(Val(parser.doc).Paths[pm[1]][pm[2]])}

Operation(pm) == Val(Val(parser.doc).Paths[pm[1]][pm[2]])

\* The operation a tool was generated from, by the URL and method it carries.
OperationOf(tool) ==
    CHOOSE pm \in DocumentOps :
        /\ pm[1] = tool.RequestTemplate.URL
        /\ ToUpper(pm[2]) = tool.RequestTemplate.Method

\* Whether the override template is applied, and successfully.
TemplateApplied ==
    options.TemplatePath # "" /\ templateFile.readable /\ templateFile.wellFormed

\* Whether an applied template replaces the tools' request security.
OverridesRequestSecurity ==
    /\ TemplateApplied
    /\ ~IsNil(templateFile.template.Tools.RequestTemplate)
    /\ ~IsNil(Val(templateFile.template.Tools.RequestTemplate).Security)

\* C1: any two calls of Convert on the same document, options and template
\* return equal configurations.
C1_SameOutputTwice ==
    \A i, j \in 1..Len(results) : results[i].config = results[j].config

C3_ArgsSorted ==
    \A i \in Returned :
        \A t \in 1..Len(Config(i).Tools) :
            LET args == Config(i).Tools[t].Args
            IN  \A k \in 1..(Len(args) - 1) :
                    ~StrLess(args[k + 1].Name, args[k].Name)

\* A returned tool has arguments from parameters and from two content types.
C3_Witness ==
    \E i \in Returned :
        \E t \in 1..Len(Config(i).Tools) :
            LET args == Config(i).Tools[t].Args
            IN  /\ Len(args) >= 5
                /\ \E k \in 1..Len(args) : args[k].Position = "body"
                /\ \E k \in 1..Len(args) : args[k].Position # "body"
                /\ \E k \in 1..Len(args) : args[k].Description = "from form"
                /\ StrLess(args[1].Name, args[Len(args)].Name)

\* C4: in every returned configuration the server's security schemes are in
\* ascending order of identifier, also when an override template supplied them.
C4_SchemesSorted ==
    \A i \in Returned :
        LET schemes == Config(i).Server.SecuritySchemes
        IN  \A k \in 1..(Len(schemes) - 1) :
                ~StrLess(schemes[k + 1].ID, schemes[k].ID)

\* The number of indices of seq that satisfy the test.
CountOf(seq, Test(_)) == Cardinality({k \in 1..Len(seq) : Test(seq[k])})

\* The content types of an operation's request body whose object schema
\* declares the resolved property n.
BodyDeclares(operation, n) ==
    IF IsNil(operation.RequestBody) THEN {}
    ELSE LET content == Val(operation.RequestBody).Content
         IN  {ct \in DOMAIN content :
                /\ IsJSONOrForm(ct)
                /\ ~IsNil(content[ct].Schema)
                /\ Val(content[ct].Schema).Type = "object"
                /\ n \in DOMAIN Val(content[ct].Schema).Properties
                /\ ~IsNil(Val(content[ct].Schema).Properties[n])}

ArgNames == {NameA, NameB, NameC}
Positions == {"path", "query", "header", "cookie", "body"}

\* C5: in every returned configuration, with or without a merged template,
\* each tool carries for every name and position exactly the arguments its
\* operation declares there: one per resolved parameter of that name at its
\* declared location, and one at "body" per request-body property of that name.
C5_PositionTagging ==
    \A i \in Returned :
        \A t \in 1..Len(Config(i).Tools) :
            LET tool == Config(i).Tools[t]
                operation == Operation(OperationOf(tool))
            IN  /\ \A k \in 1..Len(tool.Args) :
                        /\ tool.Args[k].Name \in ArgNames
                        /\ tool.Args[k].Position \in Positions
                /\ \A n \in ArgNames, pos \in Positions :
                    LET IsArg(a) == a.Name = n /\ a.Position = pos
                        IsParam(ref) ==
                            ~IsNil(ref) /\ Val(ref).Name = n /\ Val(ref).In = pos
                    IN  CountOf(tool.Args, IsArg)
                        = CountOf(operation.Parameters, IsParam)
                          + (IF pos = "body"
                             THEN Cardinality(BodyDeclares(operation, n)) ELSE 0)

\* A tool returned after a template merge has arguments from a header
\* parameter, a cookie parameter and the request body.
C5_Witness ==
    \E i \in Returned :
        /\ TemplateApplied
        /\ \E t \in 1..Len(Config(i).Tools) :
            LET args == Config(i).Tools[t].Args
            IN  /\ \E k \in 1..Len(args) : args[k].Position = "header"
                /\ \E k \in 1..Len(args) : args[k].Position = "cookie"
                /\ \E k \in 1..Len(args) : args[k].Position = "body"

\* The greatest nesting depth among the field lines: a path names one field
\* per level, levels joined by "." (after "[]" under an array).
NestingDepth(path) == 1 + Cardinality({k \in 1..Len(path) : path[k] = 46})

\* C6: walking a response schema of 15 levels of nested objects writes no
\* line for a field nested deeper than 10 (top-level properties are depth 1).
C6_DepthBound ==
    (schema = Nested(15, 0) /\ ~IsNil(written)) =>
        \A k \in 1..Len(Val(written)) :
            Val(written)[k].kind = "field" =>
                NestingDepth(Val(written)[k].path) <= 10

MustFail ==
    \/ IsNil(parser.doc)
    \/ \E pm \in DocumentOps : annotationsError(Operation(pm))
    \/ options.TemplatePath # "" /\ ~(templateFile.readable /\ templateFile.wellFormed)

\* C8: Convert fails when no document is loaded, when an operation's
\* annotations are malformed or when the template cannot be read or parsed;
\* a failed call returns no configuration, and a returned configuration has
\* one tool for every operation of the document.
C8_AllOrNothing ==
    \A i \in 1..Len(results) :
        /\ MustFail => results[i].err # <<>>
        /\ results[i].err # <<>> => IsNil(results[i].config)
        /\ ~IsNil(results[i].config) =>
              /\ results[i].err = <<>>
              /\ Len(Config(i).Tools) = Cardinality(DocumentOps)

\* Convert failed on an operation of a document that also declares an
\* operation that converts.
C8_Witness ==
    \E i \in 1..Len(results) :
        /\ results[i].err # <<>>
        /\ results[i].err[1] = "failed to convert operation"
        /\ \E pm \in DocumentOps : ~annotationsError(Operation(pm))

\* The tools of the returned configurations whose request security comes
\* from the document alone, each with the requirements its operation
\* declares (<<>> when it declares none).
GeneratedSecurity ==
    IF OverridesRequestSecurity THEN {}
    ELSE UNION {{[security |-> Config(i).Tools[t].RequestTemplate.Security,
                  requirements |->
                     LET operation == Operation(OperationOf(Config(i).Tools[t]))
                     IN  IF IsNil(operation.Security) THEN <<>>
                         ELSE Val(operation.Security)] :
                   t \in 1..Len(Config(i).Tools)} : i \in Returned}

\* The requirements that name at least one scheme, by position.
NonEmpty(requirements) ==
    {k \in 1..Len(requirements) : DOMAIN requirements[k] # {}}

C10_AllSchemesListed ==
    \A g \in GeneratedSecurity :
        \A k \in 1..Len(g.requirements) :
            \A name \in DOMAIN g.requirements[k] :
                ~IsNil(g.security) /\ Val(g.security).ID = name

(***************************************************************************)
(* Properties of the Template Merger.                                      *)
(***************************************************************************)
\* applyTemplate has returned without an error.
MergeDone == ~IsNil(merged) /\ Val(merged).err = <<>>

\* The configuration before and after applyTemplate, and the override.
Before == Val(generatedConfig).config
After == Val(merged).config
Override == templateFile.template

\* The headers, flags and strings the override gives the request template:
\* the zero values when it has no request template.
OverrideRequest ==
    IF IsNil(Override.Tools.RequestTemplate) THEN RequestTemplate
    ELSE Val(Override.Tools.RequestTemplate)

\* The strings the override gives the response template.
OverrideResponse ==
    IF IsNil(Override.Tools.ResponseTemplate) THEN ResponseTemplate
    ELSE Val(Override.Tools.ResponseTemplate)

\* C11: after the merge every tool's header list is its generated headers
\* followed by the override's headers, in that order, none removed,
\* reordered or de-duplicated.
C11_HeadersAppended ==
    MergeDone =>
        /\ Len(After.Tools) = Len(Before.Tools)
        /\ \A i \in 1..Len(Before.Tools) :
              After.Tools[i].RequestTemplate.Headers =
                  Before.Tools[i].RequestTemplate.Headers \o OverrideRequest.Headers

\* A tool generated with the Content-Type header and merged with an override
\* that carries that header again after another one: all three are kept.
C11_Witness ==
    /\ MergeDone
    /\ OverrideRequest.Headers = <<Authorization, ContentTypeJSON>>
    /\ \E i \in 1..Len(Before.Tools) :
          /\ Before.Tools[i].RequestTemplate.Headers = <<ContentTypeJSON>>
          /\ After.Tools[i].RequestTemplate.Headers =
                <<ContentTypeJSON, Authorization, ContentTypeJSON>>

\* The three argument-injection flags of a request template.
Flags == {"ArgsToJsonBody", "ArgsToUrlParam", "ArgsToFormBody"}

\* C12: after the merge each of the three flags of every tool is its
\* generated value OR the override's value, so a flag that was true is never
\* false afterwards, whether the override has no request template or carries
\* false.
C12_FlagsOneWayOr ==
    MergeDone =>
        \A i \in 1..Len(Before.Tools), flag \in Flags :
            /\ After.Tools[i].RequestTemplate[flag] =
                  (Before.Tools[i].RequestTemplate[flag] \/ OverrideRequest[flag])
            /\ Before.Tools[i].RequestTemplate[flag]
                  => After.Tools[i].RequestTemplate[flag]

\* A tool generated with ArgsToUrlParam true keeps it under an override whose
\* request template carries false for it and true for ArgsToJsonBody.
C12_Witness ==
    /\ MergeDone
    /\ ~IsNil(Override.Tools.RequestTemplate)
    /\ OverrideRequest.ArgsToJsonBody /\ ~OverrideRequest.ArgsToUrlParam
    /\ \E i \in 1..Len(Before.Tools) :
          /\ Before.Tools[i].RequestTemplate.ArgsToUrlParam
          /\ ~Before.Tools[i].RequestTemplate.ArgsToJsonBody
          /\ After.Tools[i].RequestTemplate.ArgsToUrlParam
          /\ After.Tools[i].RequestTemplate.ArgsToJsonBody

\* The three strings of a response template.
ResponseFields == {"Body", "PrependBody", "AppendBody"}

\* C13: after the merge each of Body, PrependBody and AppendBody of every
\* tool's response template is the override's value if that value is a
\* non-empty string and the generated value otherwise, each field on its own.
C13_ResponseFieldsReplaced ==
    MergeDone =>
        \A i \in 1..Len(Before.Tools), field \in ResponseFields :
            After.Tools[i].ResponseTemplate[field] =
                IF OverrideResponse[field] # "" THEN OverrideResponse[field]
                ELSE Before.Tools[i].ResponseTemplate[field]

\* A tool generated with all three strings set, merged with an override that
\* sets Body and AppendBody and leaves PrependBody empty: the first two are
\* replaced and PrependBody keeps its generated value.
C13_Witness ==
    /\ MergeDone
    /\ ~IsNil(Override.Tools.ResponseTemplate)
    /\ OverrideResponse = [Body |-> "override", PrependBody |-> "",
                           AppendBody |-> "override"]
    /\ \E i \in 1..Len(Before.Tools) :
          /\ Before.Tools[i].ResponseTemplate =
                [Body |-> "generated", PrependBody |-> "generated",
                 AppendBody |-> "generated"]
          /\ After.Tools[i].ResponseTemplate =
                [Body |-> "override", PrependBody |-> "generated",
                 AppendBody |-> "override"]

\* The contents of the server config map before and after applyTemplate, and
\* of the override's map (no keys when the override has none).
MapBefore == Val(generatedConfig).map
MapAfter == Val(merged).map
OverrideMap ==
    IF IsNil(Override.Server.Config) THEN <<>> ELSE Val(Override.Server.Config)

\* C14: after the merge the keys of the server config map are the generated
\* keys and the override's keys; a key of the override carries the
\* override's value and a key of the generated map alone keeps its value.
C14_ConfigMapUnion ==
    MergeDone =>
        /\ After.Server.Config = Before.Server.Config
        /\ DOMAIN MapAfter = DOMAIN MapBefore \cup DOMAIN OverrideMap
        /\ \A k \in DOMAIN OverrideMap : MapAfter[k] = OverrideMap[k]
        /\ \A k \in DOMAIN MapBefore \ DOMAIN OverrideMap : MapAfter[k] = MapBefore[k]

\* A generated map with region and apiKey merged with an override that sets
\* region and timeout: region is the override's, apiKey is kept, timeout is new.
C14_Witness ==
    /\ MergeDone
    /\ MapBefore = ("region" :> "caller") @@ ("apiKey" :> "caller")
    /\ OverrideMap = TemplateConfig
    /\ MapAfter = ("region" :> "template") @@ ("apiKey" :> "caller")
                  @@ ("timeout" :> "30")

\* C15: after the merge Server.SecuritySchemes is the override's list when
\* the override declares at least one scheme and the generated list
\* otherwise; every tool's RequestTemplate.Security is the override's
\* requestTemplate.security when the override has one and the generated
\* reference otherwise.
C15_SecurityReplaced ==
    MergeDone =>
        /\ After.Server.SecuritySchemes =
              IF Len(Override.Server.SecuritySchemes) > 0
              THEN Override.Server.SecuritySchemes
              ELSE Before.Server.SecuritySchemes
        /\ \A i \in 1..Len(Before.Tools) :
              After.Tools[i].RequestTemplate.Security =
                  IF ~IsNil(OverrideRequest.Security) THEN OverrideRequest.Security
                  ELSE Before.Tools[i].RequestTemplate.Security

\* A configuration with two document-derived schemes and a tool that refers
\* to one of them, merged with an override that declares two schemes and a
\* request security reference: only the override's schemes and reference
\* are left.
C15_Witness ==
    /\ MergeDone
    /\ Len(Before.Server.SecuritySchemes) = 2
    /\ Override.Server.SecuritySchemes =
          <<TemplateScheme(NameA, ""), TemplateScheme(NameB, "secret")>>
    /\ After.Server.SecuritySchemes = Override.Server.SecuritySchemes
    /\ After.Server.SecuritySchemes # Before.Server.SecuritySchemes
    /\ \E i \in 1..Len(Before.Tools) :
          /\ Before.Tools[i].RequestTemplate.Security =
                Some([ID |-> NameB, Passthrough |-> FALSE])
          /\ After.Tools[i].RequestTemplate.Security =
                Some([ID |-> NameC, Passthrough |-> TRUE])

\* Whether p is a property schema with no type and exactly one allOf member.
SingleAllOf(p) == p.Type = "" /\ Len(p.AllOf) = 1

\* Whether properties is the flattened form of the object schema member: one
\* entry for each resolved property, carrying its type (and its description
\* when it has one), or type "object" and the flattened form of its member
\* when the property is itself an allOf of one object.
RECURSIVE Flattens(_, _)
Flattens(properties, member) ==
    /\ DOMAIN properties = Resolved(member.Properties)
    /\ \A n \in Resolved(member.Properties) :
          LET p == Val(member.Properties[n])
              entry == properties[n]
              inner == Val(p.AllOf[1])
          IN  /\ DOMAIN entry =
                    {"type"}
                    \cup (IF p.Description # "" THEN {"description"} ELSE {})
                    \cup (IF SingleAllOf(p) THEN {"properties"} ELSE {})
              /\ entry["type"] = IF SingleAllOf(p) THEN "object" ELSE p.Type
              /\ SingleAllOf(p) /\ inner.Type = "object"
                    => Flattens(entry["properties"], inner)

\* The properties <<content type, name>> of an operation's request body that
\* have no type and exactly one allOf member, of type object.
AllOfProperties(operation) ==
    {cn \in UNION {{<<ct, n>> : ct \in BodyDeclares(operation, n)} : n \in ArgNames} :
        LET p == Val(Val(Val(operation.RequestBody).Content[cn[1]].Schema).Properties[cn[2]])
        IN  SingleAllOf(p) /\ Val(p.AllOf[1]).Type = "object"}

\* C16: a request-body property with no type and exactly one allOf member of
\* type object becomes an argument of type "object" whose Properties are the
\* member's properties, each with its type, a property that is itself such
\* an allOf being flattened the same way.
C16_AllOfFlattened ==
    \A i \in Returned :
        \A t \in 1..Len(Config(i).Tools) :
            LET tool == Config(i).Tools[t]
                operation == Operation(OperationOf(tool))
            IN  \A cn \in AllOfProperties(operation) :
                    LET p == Val(Val(Val(operation.RequestBody).Content[cn[1]].Schema)
                                        .Properties[cn[2]])
                    IN  \E k \in 1..Len(tool.Args) :
                            /\ tool.Args[k].Name = cn[2]
                            /\ tool.Args[k].Position = "body"
                            /\ tool.Args[k].Type = "object"
                            /\ ~IsNil(tool.Args[k].Properties)
                            /\ Flattens(Val(tool.Args[k].Properties), Val(p.AllOf[1]))

\* A tool whose argument a has Properties {a: {type: string}, b: {type:
\* integer}} and whose argument b has a property c flattened to the same.
C16_Witness ==
    \E i \in Returned :
        \E t \in 1..Len(Config(i).Tools) :
            LET tool == Config(i).Tools[t]
                flattened == (NameA :> ("type" :> "string"))
                             @@ (NameB :> ("type" :> "integer"))
            IN  /\ AllOfProperties(Operation(OperationOf(tool))) =
                      {<<"application/json", NameA>>, <<"application/json", NameB>>}
                /\ \E k \in 1..Len(tool.Args) :
                      /\ tool.Args[k].Name = NameA
                      /\ tool.Args[k].Type = "object"
                      /\ tool.Args[k].Properties = Some(flattened)
                /\ \E k \in 1..Len(tool.Args) :
                      /\ tool.Args[k].Name = NameB
                      /\ tool.Args[k].Type = "object"
                      /\ tool.Args[k].Properties = Some(
                            (NameC :> (("type" :> "object")
                                       @@ ("properties" :> flattened)))
                            @@ (NameA :> (("type" :> "string")
                                          @@ ("description" :> "inner"))))

\* The tools of the returned configurations.
ReturnedTools ==
    UNION {{Config(i).Tools[t] : t \in 1..Len(Config(i).Tools)} : i \in Returned}

\* C17: in a configuration produced without an override template every tool
\* has ArgsToJsonBody, ArgsToUrlParam and ArgsToFormBody false, whatever
\* content types its operation's request body declares.
C17_FlagsFalseWithoutTemplate ==
    options.TemplatePath = "" =>
        \A tool \in ReturnedTools :
            /\ ~tool.RequestTemplate.ArgsToJsonBody
            /\ ~tool.RequestTemplate.ArgsToUrlParam
            /\ ~tool.RequestTemplate.ArgsToFormBody

\* A tool produced without a template from an operation whose request body
\* declares a JSON and a form content type.
C17_Witness ==
    /\ options.TemplatePath = ""
    /\ \E tool \in ReturnedTools :
          LET operation == Operation(OperationOf(tool))
          IN  /\ ~IsNil(operation.RequestBody)
              /\ DOMAIN Val(operation.RequestBody).Content =
                    {"application/json", "application/x-www-form-urlencoded"}
              /\ tool.RequestTemplate.Headers # <<>>
              /\ ~tool.RequestTemplate.ArgsToJsonBody
              /\ ~tool.RequestTemplate.ArgsToUrlParam
              /\ ~tool.RequestTemplate.ArgsToFormBody

\* C18: Convert leaves the contents of the server config map the caller
\* supplied in the options as the caller built them, and the server config
\* of a configuration returned earlier has the contents it was returned with.
C18_IndependentConfigurations ==
    /\ ~IsNil(options.ServerConfig) => mapObj = CallerConfig
    /\ \A i \in Returned :
          Config(i).Server.Config = ServerConfigRef => results[i].serverConfig = mapObj

\* C19: every recursive schema traversal stops after a bounded number of
\* nested calls, whatever the schemas: never more calls of allOfHandle or of
\* processSchemaProperties are in progress than the depth limit of 10 allows
\* (the calls of depth 1 to 10 and the call that returns at once).
C19_BoundedNesting == Len(stack) <= maxDepth + 1

BodyProperties(operation) ==
    UNION {{<<ct, n>> : ct \in BodyDeclares(operation, n)} : n \in ArgNames}

\* C21: a tool has one argument for every resolved parameter and one for
\* every resolved top-level body property of every processed content type,
\* none dropped for sharing its name: as many arguments of each name as
\* parameters and body properties of that name, and as many in all.
C21_ArgsNotDeduplicated ==
    \A tool \in ReturnedTools :
        LET operation == Operation(OperationOf(tool))
            Resolves(ref) == ~IsNil(ref)
        IN  /\ Len(tool.Args) = CountOf(operation.Parameters, Resolves)
                                + Cardinality(BodyProperties(operation))
            /\ \A n \in ArgNames :
                  LET Named(a) == a.Name = n
                      ParamNamed(ref) == ~IsNil(ref) /\ Val(ref).Name = n
                  IN  CountOf(tool.Args, Named)
                      = CountOf(operation.Parameters, ParamNamed)
                        + Cardinality(BodyDeclares(operation, n))

\* A tool with three arguments named b: one from a path parameter and one
\* from the property b of each of two content types.
C21_Witness ==
    \E tool \in ReturnedTools :
        LET PathB(a) == a.Name = NameB /\ a.Position = "path"
            BodyB(a) == a.Name = NameB /\ a.Position = "body"
        IN  /\ CountOf(tool.Args, PathB) = 1
            /\ CountOf(tool.Args, BodyB) = 2
            /\ Cardinality(BodyDeclares(Operation(OperationOf(tool)), NameB)) = 2

\* What applyTemplate leaves alone in a tool.
ToolFrame(tool) ==
    <<tool.Name, tool.Description, tool.Args, tool.RequestTemplate.URL,
      tool.RequestTemplate.Method>>

\* C22: applyTemplate adds and removes no tool and leaves every tool's Name,
\* Description, Args, RequestTemplate.URL and RequestTemplate.Method as they
\* were, and Server.Name and Server.BaseURL too, whatever the override holds
\* and whether or not it could be read.
C22_MergeFrame ==
    ~IsNil(merged) =>
        /\ Len(After.Tools) = Len(Before.Tools)
        /\ \A i \in 1..Len(Before.Tools) :
              ToolFrame(After.Tools[i]) = ToolFrame(Before.Tools[i])
        /\ After.Server.Name = Before.Server.Name
        /\ After.Server.BaseURL = Before.Server.BaseURL

\* A configuration of two tools, one with arguments, merged with an override
\* that carries a server name and a base URL of its own.
C22_Witness ==
    /\ MergeDone
    /\ Override.Server.Name = "override"
    /\ Override.Server.BaseURL = "https://override.example"
    /\ Len(After.Tools) = 2
    /\ \E i \in 1..2 : Len(After.Tools[i].Args) = 2
    /\ After.Server.Name = "openapi-server"
====
